---- MODULE Spec2Model ----
(***************************************************************************)
(* Model of the bet-tracking Discord bot (src/src/index.js, with the       *)
(* report sink of src/src/logging.js).                                     *)
(*                                                                         *)
(* The bot is a set of async event handlers on one event loop.  A handler  *)
(* runs without interruption from one await to the next; at an await it    *)
(* is suspended and any other handler may run.  Every handler invocation   *)
(* is a task: its arrival action models the code up to the first await,    *)
(* and each further action models the code from the resumption of one      *)
(* await up to the next await that is followed by a read or write of the   *)
(* shared maps (processed, groupBets) or of a message's reactions.         *)
(* Every awaited external call may succeed or fail; the number of calls    *)
(* that fail in one behaviour is bounded by MaxFaults.                      *)
(***************************************************************************)
EXTENDS Integers, FiniteSets, Sequences, Bags, TLC

VARIABLES
    processed,    \* index.js:26   Set of message ids already forwarded
    groupBets,    \* index.js:31   Map message id -> proposal state
    reactions,    \* Discord side: emoji names present on each message
    outChannel,   \* Discord side: bag of messages sent to the output channel
    reportCalls,  \* bag of calls made to logSuccess/logFailure/logVoid/logCashOut
    sheet,        \* spreadsheet side: bag of rows appended
    running,      \* bag of handler invocations suspended at an await
    finished,     \* bag of handler invocations that have ended
    faults,       \* external calls that have failed so far
    creds         \* logging.js:25-27, 44-50: the Sheets credentials are configured

vars == <<processed, groupBets, reactions, outChannel, reportCalls, sheet, running,
          finished, faults, creds>>

----------------------------------------------------------------------------
(* Bounds of the model *)

\* events (handler invocations) delivered in one behaviour
MaxEvents == 3
\* handler invocations suspended at an await at the same time
MaxInFlight == 2
\* external calls (channel lookup, user fetch, send, react, append) that fail
\* in one behaviour
MaxFaults == 1

----------------------------------------------------------------------------
(* Configuration constants of index.js *)

SUCCESS_REACTION == "white_check_mark"
FAIL_REACTION == "x"
YELLOW_FLAG == "yellow_circle"
BLACK_CIRCLE == "black_circle"
UPVOTE == "thumbsup"
DOWNVOTE == "thumbsdown"
RESOLVED_EMOJIS ==
    {"white_check_mark", "heavy_check_mark", "ballot_box_with_check",
     "x", "heavy_multiplication_x", "red_square", "green_square"}

----------------------------------------------------------------------------
(* The world the bot runs in: users, messages, channels *)

Users == {"u1", "u2", "u3", "u4"}
\* no user is taken for a bot
NoBots == {}

Bots == {"bot"}

\* user.username of a user id (client.users.fetch(id)).username
Username(id) ==
    CASE id = "u1" -> "alice"
      [] id = "u2" -> "bob"
      [] id = "u3" -> "carol"
      [] id = "u4" -> "dave"
      [] OTHER -> "botname"

\* m1 is a group bet, m2 an individual bet, m3 a copy of m1 forwarded by the bot
BetMsgs == {"m1", "m2", "m3"}

\* other messages of the input channel, written in other ways
TextMsgs == {"s1", "s2", "s3", "s4", "s5", "s6"}

\* messages of the input channel that try the two content tests: q1 and q2
\* name a group but have "returns" in lower case or "Returns" with no space
\* after it; q3 has "gb" only inside longer words; q4 and q5 have it as a word
\* of its own, in mixed case before a full stop and in lower case at the end
GateMsgs == {"q1", "q2", "q3", "q4", "q5"}

\* a group bet written in the input channel by a bot
BotMsgs == {"b1"}

\* the proposal notice of m1 in the output channel: it quotes the text of m1
OutMsgs == {"o1"}

Msgs == BetMsgs \cup TextMsgs \cup GateMsgs \cup BotMsgs \cup OutMsgs

\* text of each message, one character per element
Content(m) ==
    CASE m = "m1" -> <<"G","B"," ","a"," ","$","2"," ","R","e","t","u","r","n","s"," ","$","3">>
      [] m = "m2" -> <<"D","H"," ","a"," ","$","2"," ","R","e","t","u","r","n","s"," ","$","3">>
      [] m = "s1" -> <<"n","o"," ","b","e","t">>
      [] m = "s2" -> <<"$","5"," ","$","2"," ","x">>
      [] m = "s3" -> <<"R","e","t","u","r","n","s"," ","$","5"," ","$","2",".","5","0">>
      [] m = "s4" -> <<"$","1"," ","$","4"," ","R","e","t","u","r","n","s"," ","$","3">>
      [] m = "s5" -> <<"$","4"," ","r","e","t","u","r","n","s"," ","$","3">>
      [] m = "s6" -> <<"$","3"," ","R","e","t","u","r","n","s"," ","$","1"," ","R","e","t","u","r","n","s"," ","$","2">>
      [] m = "o1" -> <<"G","B"," ","a"," ","$","2"," ","R","e","t","u","r","n","s"," ","$","3">>
      [] m = "b1" -> <<"G","B"," ","a"," ","$","2"," ","R","e","t","u","r","n","s"," ","$","3">>
      [] m = "q1" -> <<"G","B"," ","a"," ","$","2"," ","r","e","t","u","r","n","s"," ","$","3">>
      [] m = "q2" -> <<"G","B"," ","a"," ","$","2"," ","R","e","t","u","r","n","s">>
      [] m = "q3" -> <<"n","g","b"," ","g","b","p"," ","g","b","_","1"," ","R","e","t","u","r","n","s"," ","$","3">>
      [] m = "q4" -> <<"G","b","."," ","a"," ","R","e","t","u","r","n","s"," ","$","3">>
      [] m = "q5" -> <<"a"," ","R","e","t","u","r","n","s"," ","g","b">>
      [] OTHER    -> <<"G","B"," ","a"," ","$","2"," ","R","e","t","u","r","n","e","d"," ","$","3">>

\* every message taken for one of the input channel
ChannelAlwaysInput(m) == "input"

\* channel of each message: "input" (SOURCE_CHANNEL_ID / INPUT_CHANNEL_NAME),
\* "output" (TARGET_CHANNEL_ID / OUTPUT_CHANNEL_NAME) or "other"
ChannelOf(m) == IF m \in {"m3", "o1"} THEN "output" ELSE "input"

\* msg.author.id
AuthorOf(m) == IF m \in {"m3", "b1", "o1"} THEN "bot" ELSE "u1"

\* Time is counted in whole units.  logging.js:28: the cutoff LOGGING_START_ISO
LOGGING_START == 2

\* message.createdAt of the messages the bot sends and of the replies: all
\* events happen after the cutoff
SentAt == 3

\* originalMessage.createdAt: m1 was written at the cutoff, the others before
CreatedAt(m) == IF m = "m1" THEN 2 ELSE 1

\* logging.js:65-69
sameOrAfterCutoff(t) == t >= LOGGING_START

\* the gate looking at the time of the message the bot has just sent
WhenOfForward(m) == SentAt

\* logging.js:363, 388, 414, 439: when = originalMessage?.createdAt || new Date()
When(m) == CreatedAt(m)

\* originalMessage.createdAt is at or after LOGGING_START_ISO
CreatedAfterCutoff(m) == sameOrAfterCutoff(CreatedAt(m))

----------------------------------------------------------------------------
(* Helpers of index.js *)

Includes(text, pat) ==
    \E i \in 1..(Len(text) - Len(pat) + 1) : SubSeq(text, i, i + Len(pat) - 1) = pat

\* the test without the space after the word
hasReturnsWord(text) ==
    Includes(text, <<" ","R","e","t","u","r","n","s">>)

\* text.includes(' Returns '), index.js:54-56
hasExactReturns(text) ==
    Includes(text, <<" ","R","e","t","u","r","n","s"," ">>)

WordChars ==
    {"a","b","c","d","e","f","g","h","i","j","k","l","m","n","o","p","q","r","s","t",
     "u","v","w","x","y","z","A","B","C","D","E","F","G","H","I","J","K","L","M","N",
     "O","P","Q","R","S","T","U","V","W","X","Y","Z","0","1","2","3","4","5","6","7",
     "8","9","_"}

\* "gb" in any case anywhere, without the word boundaries
hasGBAnywhere(text) ==
    \E i \in 1..(Len(text) - 1) : text[i] \in {"g", "G"} /\ text[i + 1] \in {"b", "B"}

\* /\bgb\b/i
hasGB(text) ==
    \E i \in 1..(Len(text) - 1) :
        /\ text[i] \in {"g", "G"}
        /\ text[i + 1] \in {"b", "B"}
        /\ (i = 1 \/ text[i - 1] \notin WordChars)
        /\ (i + 1 = Len(text) \/ text[i + 2] \notin WordChars)

inInput(m) == ChannelOf(m) = "input"
inOutput(m) == ChannelOf(m) = "output"

isGroupBetMessage(m) ==
    inInput(m) /\ hasExactReturns(Content(m)) /\ hasGB(Content(m))

\* the messages whose content passes hasExactReturns / hasGB
WithReturns == {m \in Msgs : hasExactReturns(Content(m))}
WithGB == {m \in Msgs : hasGB(Content(m))}
GroupBetMessages == {m \in Msgs : isGroupBetMessage(m)}

----------------------------------------------------------------------------
(* Proposal state (the values of groupBets) *)

NoState ==
    [tracked |-> FALSE, proposerId |-> "", upvoters |-> {}, downvoters |-> {},
     proposalForwarded |-> FALSE]

\* a state made without the author
NewStateNoProposer(author) ==
    [tracked |-> TRUE, proposerId |-> "", upvoters |-> {}, downvoters |-> {},
     proposalForwarded |-> FALSE]

\* the object literal of index.js:171-176 and 245-250
NewState(author) ==
    [tracked |-> TRUE, proposerId |-> author, upvoters |-> {}, downvoters |-> {},
     proposalForwarded |-> FALSE]

\* if (!groupBets.has(msg.id)) groupBets.set(msg.id, {...})
EnsureState(gb, m) ==
    IF gb[m].tracked THEN gb ELSE [gb EXCEPT ![m] = NewState(AuthorOf(m))]

\* the proposer check left out
IsProposerNever(state, voterId) == FALSE

\* voterId === state.proposerId
IsProposer(state, voterId) == voterId = state.proposerId

\* state.upvoters.has(voterId) || state.downvoters.has(voterId)
AlreadyVotedUp(state, voterId) == voterId \in state.upvoters

\* state.upvoters.has(voterId) || state.downvoters.has(voterId), index.js:260
AlreadyVoted(state, voterId) ==
    voterId \in state.upvoters \/ voterId \in state.downvoters

\* the pass threshold counting the proposer's implicit vote twice
PassedAtTwo(state) == Cardinality(state.upvoters) >= 2

\* state.upvoters.size >= 1
Passed(state) == Cardinality(state.upvoters) >= 1

\* the reject threshold off by one
FailedAtOne(state) == Cardinality(state.downvoters) >= 1

\* state.downvoters.size >= 2
Failed(state) == Cardinality(state.downvoters) >= 2

\* the ledger never consulted
AlreadyProcessedNever(done, m) == FALSE

\* processed.has(msg.id)
AlreadyProcessed(done, m) == m \in done

\* the ledger keeping only the last id
MarkProcessedOnlyLast(done, m) == {m}

\* processed.add(msg.id)
MarkProcessed(done, m) == done \cup {m}

----------------------------------------------------------------------------
(* Handler invocations *)

NoAmount == -1

\* One invocation of a handler: the event it was called with (kind, msg, user,
\* emoji, amount; closed: the message replied to carried a reaction of
\* RESOLVED_EMOJIS when the reply arrived; voided: it carried BLACK_CIRCLE
\* then), where it is suspended (pc), its
\* local variables between two
\* awaits (arr: the id array copied by idsToUsernames; names: the first name
\* list built; count: the Set size it compared with the threshold) and what it
\* has done to the outside so far (out: messages sent; marks: reactions added;
\* reports: report sink calls).  stake is the local of index.js:423.  Inside
\* appendRow, attempt is the loop counter i, delay the next wait in tenths of a
\* millisecond, waited the waits it has made so far
\* and appended the number of appends that got through; drop tells
\* why the report call ended without a row.  outcome tells how the handler ended.
NewTask(kind, m, u, e, amount) ==
    [kind |-> kind, msg |-> m, user |-> u, emoji |-> e, amount |-> amount,
     closed |-> FALSE, voided |-> FALSE, stake |-> NoAmount,
     attempt |-> 0, delay |-> 0, waited |-> <<>>, appended |-> 0, drop |-> "",
     pc |-> "start", outcome |-> "", arr |-> {}, names |-> {}, count |-> 0,
     out |-> {}, marks |-> {}, reports |-> {}]

At(t, pc) == [t EXCEPT !.pc = pc]

\* the handler returned (outcome "ok", or the name of the early return) or its
\* try block was left by an exception (outcome "threw")
Finish(t, outcome) ==
    [t EXCEPT !.pc = "done", !.outcome = outcome, !.arr = {}, !.names = {}]

\* an exception that nothing stops inside the handler leaves it unhandled
Uncaught(t) == Finish(t, "unhandled")

\* an exception left the try block: the handler's own catch logs it and the
\* handler returns (index.js:205-207, 369-371, 451-453)
Caught(t) == Finish(t, "threw")

Running == BagToSet(running)
Finished == BagToSet(finished)

One(x) == SetToBag({x})

\* users that have triggered an event so far
SeenUsers == {t.user : t \in Running \cup Finished}

\* The users other than message authors are interchangeable for the bot (it
\* only compares ids), so new ones enter in a fixed order.
UserMayAct(u) ==
    \/ u \in {"u1", "u2"}
    \/ u = "u3" /\ "u2" \in SeenUsers
    \/ u = "u4" /\ "u3" \in SeenUsers
    \/ u \notin Users

CanArrive ==
    /\ BagCardinality(running) + BagCardinality(finished) < MaxEvents
    /\ BagCardinality(running) < MaxInFlight

\* n more external calls fail
Fail(n) == faults + n <= MaxFaults /\ faults' = faults + n

\* a new invocation t: suspended at its first await, or already ended
Arrive(t) ==
    /\ UNCHANGED creds
    /\ IF t.pc = "done"
       THEN finished' = finished (+) One(t) /\ UNCHANGED running
       ELSE running' = running (+) One(t) /\ UNCHANGED finished

\* invocation t resumes and becomes t2
Resume(t, t2) ==
    /\ UNCHANGED creds
    /\ IF t2.pc = "done"
       THEN /\ running' = running (-) One(t)
            /\ finished' = finished (+) One(t2)
       ELSE /\ running' = (running (-) One(t)) (+) One(t2)
            /\ UNCHANGED finished

\* a message sent to the output channel about message m
OutMsg(kind, m) ==
    [kind |-> kind, msg |-> m, proposer |-> "", for |-> {}, against |-> {},
     dash |-> FALSE, line |-> [frame |-> "", abs |-> 0, amount |-> 0]]

\* the send left out
SendNothing(out) == UNCHANGED outChannel

Send(out) == outChannel' = outChannel (+) One(out)

Sent(t, out) == [t EXCEPT !.out = @ \cup {out}]

\* idsToUsernames: one entry per id, the username or 'Unknown' when its fetch failed
idsToUsernames(ids, failed) ==
    {<<id, IF id \in failed THEN "Unknown" ELSE Username(id)>> : id \in ids}

\* The state after the modules are loaded; c tells whether the three Google
\* Sheets environment variables are set (logging.js:25-27).
InitWith(c) ==
    /\ creds = c
    /\ processed = {}
    /\ groupBets = [m \in Msgs |-> NoState]
    /\ reactions = [m \in Msgs |-> {}]
    /\ outChannel = EmptyBag
    /\ reportCalls = EmptyBag
    /\ sheet = EmptyBag
    /\ running = EmptyBag
    /\ finished = EmptyBag
    /\ faults = 0

Init == \E c \in BOOLEAN : InitWith(c)

----------------------------------------------------------------------------
(* (2) MessageReactionAdd handler, index.js:213-372 *)

ReactEmojis == {UPVOTE, DOWNVOTE, SUCCESS_REACTION, FAIL_REACTION}

\* The handler up to its first await (index.js:215-262 on the voting path,
\* 215-352 on the resolution path).
ReactionAdd(m, u, e) ==
    LET t == NewTask("react", m, u, e, NoAmount)
        isVote == e \in {UPVOTE, DOWNVOTE}
        gb == EnsureState(groupBets, m)
    IN
    /\ CanArrive
    /\ UserMayAct(u)
    /\ reactions' = [reactions EXCEPT ![m] = @ \cup {e}]
    /\ UNCHANGED <<outChannel, reportCalls, sheet, faults>>
    /\ IF u \in Bots
       THEN /\ Arrive(Finish(t, "bot"))
            /\ UNCHANGED <<processed, groupBets>>
       ELSE IF inOutput(m) /\ isVote
       THEN /\ Arrive(At(t, "o_chan"))
            /\ UNCHANGED <<processed, groupBets>>
       ELSE IF inInput(m) /\ m \in WithReturns /\ m \in WithGB /\ isVote
       THEN /\ groupBets' = gb
            /\ UNCHANGED processed
            /\ Arrive(IF IsProposer(gb[m], u) THEN Finish(t, "proposer")
                      ELSE IF AlreadyVoted(gb[m], u) THEN Finish(t, "duplicate")
                      ELSE At(t, "v_chan"))
       ELSE IF ~inInput(m) \/ m \notin WithReturns
               \/ e \notin {SUCCESS_REACTION, FAIL_REACTION}
       THEN /\ Arrive(Finish(t, "ignored"))
            /\ UNCHANGED <<processed, groupBets>>
       ELSE IF AlreadyProcessed(processed, m)
       THEN /\ Arrive(Finish(t, "skipped"))
            /\ UNCHANGED <<processed, groupBets>>
       ELSE /\ processed' = MarkProcessed(processed, m)
            /\ Arrive(At(t, "r_chan"))
            /\ UNCHANGED groupBets

\* state.upvoters.add(voterId) / state.downvoters.add(voterId)
AddVote(state, emoji, voterId) ==
    IF emoji = UPVOTE
    THEN [state EXCEPT !.upvoters = @ \cup {voterId}]
    ELSE [state EXCEPT !.downvoters = @ \cup {voterId}]

\* the vote added before the channel is looked up
NoChannelAfterAdd(t) ==
    /\ t.pc \in {"v_chan", "r_chan"}
    /\ Fail(1)
    /\ Resume(t, Finish(t, "nochan"))
    /\ groupBets' = [groupBets EXCEPT ![t.msg] = AddVote(@, t.emoji, t.user)]
    /\ UNCHANGED <<processed, reactions, outChannel, reportCalls, sheet>>

\* getOutputChannel returned null: `if (!target) return;`
\* (index.js:263, 353)
NoChannel(t) ==
    /\ t.pc \in {"v_chan", "r_chan"}
    /\ Fail(1)
    /\ Resume(t, Finish(t, "nochan"))
    /\ UNCHANGED <<processed, groupBets, reactions, outChannel, reportCalls, sheet>>

\* the threshold test of index.js:269 / 299 on the state after the add
ThresholdMet(state, emoji) ==
    IF emoji = UPVOTE THEN Passed(state) ELSE Failed(state)

\* state.upvoters.size / state.downvoters.size
VoteCount(state, emoji) ==
    Cardinality(IF emoji = UPVOTE THEN state.upvoters ELSE state.downvoters)

\* index.js:262-272 and 295-302: the channel is there, the vote is recorded and
\* the threshold is met; the handler awaits the proposer's user object.
VoteRecord(t) ==
    LET m == t.msg
        st == AddVote(groupBets[m], t.emoji, t.user)
    IN
    /\ t.pc = "v_chan"
    /\ ThresholdMet(st, t.emoji)
    /\ groupBets' = [groupBets EXCEPT ![m] = st]
    /\ Resume(t, [t EXCEPT !.pc = "v_proposer", !.count = VoteCount(st, t.emoji)])
    /\ UNCHANGED <<processed, reactions, outChannel, reportCalls, sheet, faults>>

\* index.js:262-269, 284-292 and 295-299, 317-322: the channel is there, the
\* vote is recorded, the threshold is not met and the notice is sent
\* (sendOk), or its send rejects and the exception leaves the try block.
VoteRecordNotice(t, sendOk) ==
    LET m == t.msg
        st == AddVote(groupBets[m], t.emoji, t.user)
        out == OutMsg(IF t.emoji = UPVOTE THEN "progress" ELSE "against", m)
        t2 == [t EXCEPT !.count = VoteCount(st, t.emoji)]
    IN
    /\ t.pc = "v_chan"
    /\ ~ThresholdMet(st, t.emoji)
    /\ groupBets' = [groupBets EXCEPT ![m] = st]
    /\ IF sendOk
       THEN Send(out) /\ Resume(t, Finish(Sent(t2, out), "ok")) /\ Fail(0)
       ELSE UNCHANGED outChannel /\ Resume(t, Caught(t2)) /\ Fail(1)
    /\ UNCHANGED <<processed, reactions, reportCalls, sheet>>

\* index.js:272-273 and 302-305: client.users.fetch(state.proposerId) resolved;
\* idsToUsernames copies the first voter set (Array.from) and awaits the names.
VoteProposer(t) ==
    LET st == groupBets[t.msg]
    IN
    /\ t.pc = "v_proposer"
    /\ Resume(t, [t EXCEPT !.pc = "v_names",
                           !.arr = IF t.emoji = UPVOTE THEN st.upvoters ELSE st.downvoters])
    /\ UNCHANGED <<processed, groupBets, reactions, outChannel, reportCalls, sheet, faults>>

\* client.users.fetch(state.proposerId) rejects: nothing catches it before the
\* handler's own catch (index.js:272, 302, 369-371)
ProposerFetchThrows(t) ==
    /\ t.pc = "v_proposer"
    /\ Fail(1)
    /\ Resume(t, Caught(t))
    /\ UNCHANGED <<processed, groupBets, reactions, outChannel, reportCalls, sheet>>

\* the announcement of index.js:274-283 (passed) or 306-316 (rejected), from
\* the proposer's name and the two name lists in the order they were built
Announcement(emoji, m, proposerName, first, second) ==
    IF emoji = UPVOTE
    THEN [OutMsg("passed", m) EXCEPT
            !.proposer = proposerName,
            !.for = first,
            !.against = second,
            !.dash = (second = {})]
    ELSE [OutMsg("rejected", m) EXCEPT
            !.proposer = proposerName,
            !.for = second,
            !.against = first]

\* the set read second: state.downvoters at index.js:275, state.upvoters at 308
OtherVoters(t) ==
    IF t.emoji = UPVOTE THEN groupBets[t.msg].downvoters ELSE groupBets[t.msg].upvoters

\* index.js:273-292 and 305-322: the first name list is built, idsToUsernames
\* copies the other voter set, the second name list is built and the
\* announcement is sent (sendOk) or its send rejects.  failed1 and failed2 are
\* the ids whose user fetch failed inside idsToUsernames.
VoteAnnounce(t, failed1, failed2, sendOk) ==
    LET st == groupBets[t.msg]
        other == OtherVoters(t)
        out == Announcement(t.emoji, t.msg, Username(st.proposerId),
                            idsToUsernames(t.arr, failed1),
                            idsToUsernames(other, failed2))
        n == Cardinality(failed1) + Cardinality(failed2)
    IN
    /\ t.pc = "v_names"
    /\ failed2 \subseteq other
    /\ IF sendOk
       THEN Send(out) /\ Resume(t, Finish(Sent(t, out), "ok")) /\ Fail(n)
       ELSE UNCHANGED outChannel /\ Resume(t, Caught(t)) /\ Fail(n + 1)
    /\ UNCHANGED <<processed, groupBets, reactions, reportCalls, sheet>>

----------------------------------------------------------------------------
(* The report sink, logging.js *)

\* a cell of the sheet: empty, or a number
Blank == [isNull |-> TRUE, v |-> 0]
Num(n) == [isNull |-> FALSE, v |-> n]

\* logging.js:110-112: Math.round(Number(n) * 100) / 100, from thousandths to cents
to2(n) == (n + 5) \div 10

\* logging.js:310-311: cashout != null ? to2(cashout) : ""
Cell(c) == IF c.isNull THEN Blank ELSE Num(to2(c.v))

\* logging.js:288-336: the row of an event about original message m (columns
\* A, B, J, K and Q)
buildRow(event, m, cashout, gainLoss) ==
    [event |-> event, msg |-> m, when |-> When(m),
     cashout |-> Cell(cashout), gainLoss |-> Cell(gainLoss)]

\* the row of logSuccess / logFailure: cashout and gain/loss left blank
Row(event, m) == buildRow(event, m, Blank, Blank)

\* logging.js:263
maxAttempts == 5

\* logging.js:264, in tenths of a millisecond
FirstDelay == 4000

\* a delay growing by the same amount each time
NextDelayLinear(delay) == delay + 4000

\* logging.js:281: delay *= 1.6
NextDelay(delay) == (delay * 16) \div 10

\* logging.js:44-50
haveCreds == creds

\* the loop of appendRow left only when its counter passes the bound
LoopReturnsNever(ok, i) == FALSE

\* logging.js:274, 276-279: the loop of appendRow returns after an append that
\* got through and after the failure of attempt maxAttempts
LoopReturns(ok, i) == ok \/ i = maxAttempts

\* the row invocation t has reported
RowOf(t) == CHOOSE row \in t.reports : TRUE

\* logSuccess / logFailure / logVoid / logCashOut (logging.js:361-460) up to
\* the first external call: called by invocation t, which becomes t2 on the
\* way.  The event is dropped when the original is older than the cutoff
\* (logging.js:364) or the credentials are missing (logging.js:255-256);
\* otherwise appendRow awaits ensureTabs.
Report(t, t2, row) ==
    LET t3 == [t2 EXCEPT !.reports = @ \cup {row}]
    IN
    /\ reportCalls' = reportCalls (+) One(row)
    /\ Resume(t, IF ~sameOrAfterCutoff(row.when)
                 THEN Finish([t3 EXCEPT !.drop = "cutoff"], "ok")
                 ELSE IF ~haveCreds
                 THEN Finish([t3 EXCEPT !.drop = "nocreds"], "ok")
                 ELSE At(t3, "s_tabs"))

\* logging.js:258: ensureTabs resolved (ok), or one of its calls (reading the
\* spreadsheet, adding the tab, writing the header row) rejected: appendRow
\* throws and the catch of the log function (logging.js:381, 406, 432, 457)
\* warns and returns
SinkTabs(t, ok) ==
    /\ t.pc = "s_tabs"
    /\ IF ok THEN Fail(0) ELSE Fail(1)
    /\ Resume(t, IF ok
                 THEN [t EXCEPT !.pc = "s_append", !.attempt = 1, !.delay = FirstDelay]
                 ELSE Finish([t EXCEPT !.drop = "header"], "ok"))
    /\ UNCHANGED <<processed, groupBets, reactions, outChannel, reportCalls, sheet>>

\* logging.js:265-283: attempt i of the loop: the append got through (ok) or
\* rejected.  The failures of the append are bounded by the loop and not
\* counted in faults.
SinkAppend(t, ok) ==
    LET t2 == [t EXCEPT !.appended = @ + (IF ok THEN 1 ELSE 0)]
    IN
    /\ t.pc = "s_append"
    /\ IF ok THEN sheet' = sheet (+) One(RowOf(t)) ELSE UNCHANGED sheet
    /\ Resume(t, IF LoopReturns(ok, t.attempt) \/ t.attempt + 1 > maxAttempts
                 THEN Finish([t2 EXCEPT !.drop = IF t2.appended = 0 THEN "gaveup" ELSE ""],
                             "ok")
                 ELSE [t2 EXCEPT !.attempt = @ + 1, !.waited = Append(@, t.delay),
                                 !.delay = NextDelay(@)])
    /\ UNCHANGED <<processed, groupBets, reactions, outChannel, reportCalls, faults>>

SinkSteps ==
    \/ \E t \in Running, ok \in BOOLEAN : SinkTabs(t, ok)
    \/ \E t \in Running, ok \in BOOLEAN : SinkAppend(t, ok)

----------------------------------------------------------------------------
(* The resolution path, continued *)

\* index.js:352-368: the forward is sent and logSuccess / logFailure is called
ResolveForward(t) ==
    LET isOk == t.emoji = SUCCESS_REACTION
        out == OutMsg(IF isOk THEN "succeeded" ELSE "failed", t.msg)
        event == IF isOk THEN "SUCCESS" ELSE "FAILURE"
    IN
    /\ t.pc = "r_chan"
    /\ Send(out)
    /\ Report(t, Sent(t, out), Row(event, t.msg))
    /\ UNCHANGED <<processed, groupBets, reactions, sheet, faults>>

\* index.js:357, 369-371: target.send rejects and the handler's catch logs it
ResolveSendThrows(t) ==
    /\ t.pc = "r_chan"
    /\ Fail(1)
    /\ Resume(t, Caught(t))
    /\ UNCHANGED <<processed, groupBets, reactions, outChannel, reportCalls, sheet>>

----------------------------------------------------------------------------
(* index.js:223-231: a vote reaction on a message of the output channel *)

\* the channel is looked up and the "Vote in <#input> not here." notice is sent
\* (ok), or the channel is missing or the send rejects
OutputGuardNotice(t, ok) ==
    LET out == OutMsg("vote_here", t.msg)
    IN
    /\ t.pc = "o_chan"
    /\ IF ok
       THEN Send(out) /\ Resume(t, Finish(Sent(t, out), "ok")) /\ Fail(0)
       ELSE UNCHANGED outChannel /\ Resume(t, Caught(t)) /\ Fail(1)
    /\ UNCHANGED <<processed, groupBets, reactions, reportCalls, sheet>>

----------------------------------------------------------------------------
(* (1) MessageCreate handler for group bet proposals, index.js:164-208 *)

\* index.js:166-183: the handler up to `await msg.react(UPVOTE)`
MessageCreateBet(m) ==
    LET t == NewTask("create", m, AuthorOf(m), "", NoAmount)
    IN
    /\ CanArrive
    /\ UNCHANGED <<processed, reactions, outChannel, reportCalls, sheet, faults>>
    /\ IF AuthorOf(m) \in Bots \/ m \notin GroupBetMessages
       THEN Arrive(Finish(t, "ignored")) /\ UNCHANGED groupBets
       ELSE Arrive(At(t, "g_react")) /\ groupBets' = EnsureState(groupBets, m)

\* index.js:182-189: the react resolved (reacted) or failed and was swallowed;
\* state.proposalForwarded is read
CreateReacted(t, reacted) ==
    LET t2 == IF reacted THEN [t EXCEPT !.marks = @ \cup {UPVOTE}] ELSE t
    IN
    /\ t.pc = "g_react"
    /\ IF reacted
       THEN reactions' = [reactions EXCEPT ![t.msg] = @ \cup {UPVOTE}] /\ Fail(0)
       ELSE UNCHANGED reactions /\ Fail(1)
    /\ Resume(t, IF groupBets[t.msg].proposalForwarded
                 THEN Finish(t2, "ok") ELSE At(t2, "g_chan"))
    /\ UNCHANGED <<processed, groupBets, outChannel, reportCalls, sheet>>

\* index.js:188-203: the proposal notice is sent and proposalForwarded is set
CreateForward(t) ==
    LET out == [OutMsg("proposal", t.msg) EXCEPT !.proposer = Username(AuthorOf(t.msg))]
    IN
    /\ t.pc = "g_chan"
    /\ Send(out)
    /\ groupBets' = [groupBets EXCEPT ![t.msg].proposalForwarded = TRUE]
    /\ Resume(t, Finish(Sent(t, out), "ok"))
    /\ UNCHANGED <<processed, reactions, reportCalls, sheet, faults>>

\* index.js:189 (`if (!target) return;`) or 194, 205 (the send rejects)
CreateForwardFails(t, outcome) ==
    /\ t.pc = "g_chan"
    /\ outcome \in {"nochan", "threw"}
    /\ Fail(1)
    /\ Resume(t, IF outcome = "threw" THEN Caught(t) ELSE Finish(t, outcome))
    /\ UNCHANGED <<processed, groupBets, reactions, outChannel, reportCalls, sheet>>

----------------------------------------------------------------------------
(* (3) MessageCreate handler for cash-out / void replies, index.js:377-454 *)

Digits == {"0", "1", "2", "3", "4", "5", "6", "7", "8", "9"}

DigitValue(c) ==
    CASE c = "0" -> 0 [] c = "1" -> 1 [] c = "2" -> 2 [] c = "3" -> 3 [] c = "4" -> 4
      [] c = "5" -> 5 [] c = "6" -> 6 [] c = "7" -> 7 [] c = "8" -> 8 [] OTHER -> 9

RECURSIVE NatOf(_)
\* the number written by a sequence of digits
NatOf(ds) == IF ds = <<>> THEN 0 ELSE 10 * NatOf(SubSeq(ds, 1, Len(ds) - 1)) + DigitValue(ds[Len(ds)])

\* Amounts are kept in thousandths of a dollar.
Milli == 1000

\* Number("<int>") and Number("<int>.<frac>") for at most three decimals
NumberOf(int, frac) ==
    NatOf(int) * Milli
    + (CASE Len(frac) = 0 -> 0
         [] Len(frac) = 1 -> NatOf(frac) * 100
         [] Len(frac) = 2 -> NatOf(frac) * 10
         [] OTHER -> NatOf(SubSeq(frac, 1, 3)))

\* the end of the longest run of digits of text that starts at i (i - 1 if none)
RECURSIVE DigitsEnd(_, _)
DigitsEnd(text, i) ==
    IF i <= Len(text) /\ text[i] \in Digits THEN DigitsEnd(text, i + 1) ELSE i - 1

\* [0-9]+(?:\.[0-9]+)? matched at position i of text: the number and the index
\* of the last character matched; ok is FALSE when there is no digit at i
DecimalAt(text, i) ==
    LET e1 == DigitsEnd(text, i)
        hasFrac == e1 + 2 <= Len(text) /\ text[e1 + 1] = "." /\ text[e1 + 2] \in Digits
        e2 == IF hasFrac THEN DigitsEnd(text, e1 + 2) ELSE e1
    IN [ok |-> e1 >= i,
        last |-> e2,
        value |-> IF e1 < i THEN 0
                  ELSE NumberOf(SubSeq(text, i, e1),
                                IF hasFrac THEN SubSeq(text, e1 + 2, e2) ELSE <<>>)]

Whitespace == {" "}

RECURSIVE TrimLeft(_)
TrimLeft(text) ==
    IF text # <<>> /\ text[1] \in Whitespace THEN TrimLeft(Tail(text)) ELSE text

RECURSIVE TrimRight(_)
TrimRight(text) ==
    IF text # <<>> /\ text[Len(text)] \in Whitespace
    THEN TrimRight(SubSeq(text, 1, Len(text) - 1)) ELSE text

\* index.js:96-101: /^\$\s*([0-9]+(?:\.[0-9]+)?)$/ on the trimmed content;
\* NoAmount stands for null
parseDollarOnlyMessage(content) ==
    LET trimmed == TrimRight(TrimLeft(content))
        rest == IF trimmed = <<>> THEN <<>> ELSE TrimLeft(Tail(trimmed))
        d == DecimalAt(rest, 1)
    IN IF trimmed # <<>> /\ trimmed[1] = "$" /\ d.ok /\ d.last = Len(rest)
       THEN d.value ELSE NoAmount

\* the smallest amount of the text, wherever "Returns" is
extractSmallestAmount(text) ==
    LET starts == {i \in 1..(Len(text) - 1) : text[i] = "$" /\ text[i + 1] \in Digits}
        valueAt(i) == DecimalAt(text, i + 1).value
        smallest == CHOOSE i \in starts : \A j \in starts : valueAt(i) <= valueAt(j)
    IN IF starts = {} THEN NoAmount ELSE valueAt(smallest)

\* index.js:105-122; NoAmount stands for null
extractStakeFromText(text) ==
    LET starts == {i \in 1..(Len(text) - 1) : text[i] = "$" /\ text[i + 1] \in Digits}
        valueAt(i) == DecimalAt(text, i + 1).value
        word == <<"R","e","t","u","r","n","s">>
        hits == {i \in 1..(Len(text) - Len(word) + 1) :
                    SubSeq(text, i, i + Len(word) - 1) = word}
        returnsIndex == CHOOSE i \in hits : \A j \in hits : i <= j
        beforeReturns == IF hits = {} THEN {} ELSE {i \in starts : i < returnsIndex}
        lastBefore == CHOOSE i \in beforeReturns : \A j \in beforeReturns : j <= i
        smallest == CHOOSE i \in starts : \A j \in starts : valueAt(i) <= valueAt(j)
    IN IF starts = {} THEN NoAmount
       ELSE IF beforeReturns # {} THEN valueAt(lastBefore)
       ELSE valueAt(smallest)

\* the stake inferred from each message's content
StakeOf == [m \in Msgs |-> extractStakeFromText(Content(m))]

\* index.js:125-127: Number(n).toFixed(2), in cents
fmtMoney(n) == (n + 5) \div 10

\* index.js:426-439: the gain/loss passed to logCashOut, a cell
gainLossForLog(cashoutAmount, stake) ==
    IF stake # NoAmount THEN Num(cashoutAmount - stake) ELSE Blank

\* the framing with the neutral band closed at both ends
CashoutLineStrict(cashoutAmount, stake) ==
    LET diff == cashoutAmount - stake
        abs == IF diff < 0 THEN -diff ELSE diff
    IN IF stake # NoAmount /\ abs > 5
       THEN [frame |-> IF diff > 0 THEN "gain" ELSE "loss",
             abs |-> fmtMoney(abs), amount |-> fmtMoney(cashoutAmount)]
       ELSE [frame |-> "plain", abs |-> 0, amount |-> fmtMoney(cashoutAmount)]

\* index.js:423-439: the cash-out line: its framing and the two amounts it
\* shows, in cents
CashoutLine(cashoutAmount, stake) ==
    LET diff == cashoutAmount - stake
        abs == IF diff < 0 THEN -diff ELSE diff
    IN IF stake # NoAmount /\ abs >= 5
       THEN [frame |-> IF diff > 0 THEN "gain" ELSE "loss",
             abs |-> fmtMoney(abs), amount |-> fmtMoney(cashoutAmount)]
       ELSE [frame |-> "plain", abs |-> 0, amount |-> fmtMoney(cashoutAmount)]

\* the texts replied with
ReplyContents == {<<"$", "0">>, <<"$", "3">>, <<"o", "k">>}

\* replies with amounts around a stake of $2
FramingReplies ==
    {<<"$","1",".","9","9","5">>,
     <<"$","1",".","9","9","6">>,
     <<"$","1",".","9","9","9">>,
     <<"$","2",".","0","0","4">>,
     <<"$","2",".","0","0","5">>,
     <<"$","3">>}

\* index.js:379-398: the handler up to `await channel.messages.fetch(...)`;
\* m is the message replied to, in whose channel the reply is
MessageCreateReply(m, u, content) ==
    LET cashoutAmount == parseDollarOnlyMessage(content)
        t == [NewTask("reply", m, u, "", cashoutAmount) EXCEPT
                !.closed = (reactions[m] \cap RESOLVED_EMOJIS # {}),
                !.voided = (BLACK_CIRCLE \in reactions[m])]
    IN
    /\ CanArrive
    /\ UserMayAct(u)
    /\ Arrive(IF u \in Bots \/ ~inInput(m) \/ cashoutAmount = NoAmount
              THEN Finish(t, "ignored") ELSE At(t, "c_fetch"))
    /\ UNCHANGED <<processed, groupBets, reactions, outChannel, reportCalls, sheet, faults>>

\* index.js:136-147: some reaction of the message is in RESOLVED_EMOJIS; false
\* when msg.fetch() rejected (fetched = FALSE)
messageAppearsResolved(m, fetched) ==
    fetched /\ \E emojiName \in reactions[m] : emojiName \in RESOLVED_EMOJIS

\* index.js:396-404: the original message was fetched and
\* messageAppearsResolved has answered
CashCheck(t, fetched) ==
    /\ t.pc = "c_fetch"
    /\ IF fetched THEN Fail(0) ELSE Fail(1)
    /\ Resume(t, IF messageAppearsResolved(t.msg, fetched)
                 THEN Finish(t, "resolved") ELSE At(t, "c_chan"))
    /\ UNCHANGED <<processed, groupBets, reactions, outChannel, reportCalls, sheet>>

\* index.js:396-399: the original message could not be fetched
CashNoOriginal(t) ==
    /\ t.pc = "c_fetch"
    /\ Fail(1)
    /\ Resume(t, Finish(t, "nooriginal"))
    /\ UNCHANGED <<processed, groupBets, reactions, outChannel, reportCalls, sheet>>

\* index.js:404-405: getOutputChannel returned null
CashNoChannel(t) ==
    /\ t.pc = "c_chan"
    /\ Fail(1)
    /\ Resume(t, Finish(t, "nochan"))
    /\ UNCHANGED <<processed, groupBets, reactions, outChannel, reportCalls, sheet>>

\* the cash-out marker whatever the amount
MarkerAlwaysFlag(cashoutAmount) == YELLOW_FLAG

\* the marker of index.js:411 / 421
MarkerFor(cashoutAmount) == IF cashoutAmount = 0 THEN BLACK_CIRCLE ELSE YELLOW_FLAG

\* index.js:404-421: the output channel is there and the marker reaction is
\* added to the original (reacted), or the react failed and was swallowed
CashReact(t, reacted) ==
    LET marker == MarkerFor(t.amount)
    IN
    /\ t.pc = "c_chan"
    /\ IF reacted
       THEN /\ reactions' = [reactions EXCEPT ![t.msg] = @ \cup {marker}]
            /\ Resume(t, [t EXCEPT !.pc = "c_send", !.marks = @ \cup {marker}])
            /\ Fail(0)
       ELSE /\ UNCHANGED reactions
            /\ Resume(t, At(t, "c_send"))
            /\ Fail(1)
    /\ UNCHANGED <<processed, groupBets, outChannel, reportCalls, sheet>>

\* index.js:412-417 and 423-450: the "Bet Voided" or cash-out message is sent
\* and logVoid / logCashOut is called
CashSend(t) ==
    LET isVoid == t.amount = 0
        stake == StakeOf[t.msg]
        out == IF isVoid THEN OutMsg("voided", t.msg)
               ELSE [OutMsg("cashout", t.msg) EXCEPT
                       !.line = CashoutLine(t.amount, stake)]
        row == IF isVoid THEN buildRow("VOID", t.msg, Num(0), Num(0))
               ELSE buildRow("CASH_OUT", t.msg, Num(t.amount),
                             gainLossForLog(t.amount, stake))
        t2 == IF isVoid THEN t ELSE [t EXCEPT !.stake = stake]
    IN
    /\ t.pc = "c_send"
    /\ Send(out)
    /\ Report(t, Sent(t2, out), row)
    /\ UNCHANGED <<processed, groupBets, reactions, sheet, faults>>

\* index.js:412 / 441: the send rejects; the catch of index.js:451 is silent
CashSendThrows(t) ==
    /\ t.pc = "c_send"
    /\ Fail(1)
    /\ Resume(t, Caught(t))
    /\ UNCHANGED <<processed, groupBets, reactions, outChannel, reportCalls, sheet>>

----------------------------------------------------------------------------
(* Specifications *)

VoteSteps ==
    \/ \E t \in Running : NoChannel(t)
    \/ \E t \in Running : VoteRecord(t)
    \/ \E t \in Running, sendOk \in BOOLEAN : VoteRecordNotice(t, sendOk)
    \/ \E t \in Running : VoteProposer(t)
    \/ \E t \in Running : ProposerFetchThrows(t)
    \/ \E t \in Running, sendOk \in BOOLEAN :
          \E failed1 \in SUBSET t.arr, failed2 \in SUBSET OtherVoters(t) :
             VoteAnnounce(t, failed1, failed2, sendOk)

ResolveSteps ==
    \/ \E t \in Running : NoChannel(t)
    \/ \E t \in Running : ResolveForward(t)
    \/ \E t \in Running : ResolveSendThrows(t)

CreateSteps ==
    \/ \E t \in Running, reacted \in BOOLEAN : CreateReacted(t, reacted)
    \/ \E t \in Running : CreateForward(t)
    \/ \E t \in Running, outcome \in {"nochan", "threw"} : CreateForwardFails(t, outcome)

CashSteps ==
    \/ \E t \in Running, fetched \in BOOLEAN : CashCheck(t, fetched)
    \/ \E t \in Running : CashNoOriginal(t)
    \/ \E t \in Running : CashNoChannel(t)
    \/ \E t \in Running, reacted \in BOOLEAN : CashReact(t, reacted)
    \/ \E t \in Running : CashSend(t)
    \/ \E t \in Running : CashSendThrows(t)

\* The whole bot: any event on any message.
Next ==
    \/ \E m \in Msgs, u \in Users, e \in ReactEmojis : ReactionAdd(m, u, e)
    \/ \E m \in Msgs : MessageCreateBet(m)
    \/ \E m \in Msgs, u \in Users, c \in ReplyContents : MessageCreateReply(m, u, c)
    \/ VoteSteps
    \/ ResolveSteps
    \/ CreateSteps
    \/ CashSteps
    \/ SinkSteps
    \/ \E t \in Running, ok \in BOOLEAN : OutputGuardNotice(t, ok)

Spec == Init /\ [][Next]_vars

\* The bot when the only events are vote reactions on the group bet message.
\* The voting path makes no report call, so the credentials are never read.
NextVoting ==
    \/ \E u \in Users, e \in {UPVOTE, DOWNVOTE} : ReactionAdd("m1", u, e)
    \/ VoteSteps

SpecVoting == InitWith(TRUE) /\ [][NextVoting]_vars

\* The bot when the only events are success / fail reactions.
NextResolution ==
    \/ \E m \in BetMsgs, u \in Users, e \in {SUCCESS_REACTION, FAIL_REACTION} :
          ReactionAdd(m, u, e)
    \/ ResolveSteps
    \/ SinkSteps

SpecResolution == Init /\ [][NextResolution]_vars

\* The bot when the only events are reactions with a resolved marker and
\* replies to the individual bet message.  That message is older than the
\* cutoff: every report call ends at logging.js:364, before the credentials are
\* read and before any call to the spreadsheet.
NextCashOut ==
    \/ \E u \in Users : ReactionAdd("m2", u, SUCCESS_REACTION)
    \/ \E u \in Users, c \in ReplyContents : MessageCreateReply("m2", u, c)
    \/ ResolveSteps
    \/ CashSteps

SpecCashOut == InitWith(TRUE) /\ [][NextCashOut]_vars

\* no handler is suspended: the next event finds the bot idle
Idle == running = EmptyBag

\* The bot when the only events are replies to the individual bet, each
\* arriving when the bot is idle.
NextOutcome ==
    \/ \E c \in ReplyContents : Idle /\ MessageCreateReply("m2", "u1", c)
    \/ CashSteps

SpecOutcome == InitWith(TRUE) /\ [][NextOutcome]_vars

\* The bot when the only events are replies with amounts around $2 to the
\* individual bet (stake $2) and $3 replies to a message without any amount,
\* each arriving when the bot is idle.  Both messages are older than the cutoff.
NextFraming ==
    \/ \E c \in FramingReplies : Idle /\ MessageCreateReply("m2", "u1", c)
    \/ Idle /\ MessageCreateReply("s1", "u1", <<"$", "3">>)
    \/ CashSteps

SpecFraming == InitWith(TRUE) /\ [][NextFraming]_vars

\* The bot when the only events are $3 replies to messages of any text, each
\* arriving when the bot is idle.
NextStake ==
    \/ \E m \in {"m2"} \cup TextMsgs : Idle /\ MessageCreateReply(m, "u1", <<"$", "3">>)
    \/ CashSteps

SpecStake == InitWith(TRUE) /\ [][NextStake]_vars

\* The bot when the only events are a fail reaction on and $3 replies to the
\* group bet (written at the cutoff), and a success reaction on and $0 replies
\* to the individual bet (older than the cutoff), all by the author and each
\* arriving when the bot is idle.
NextSink ==
    \/ Idle /\ ReactionAdd("m1", "u1", FAIL_REACTION)
    \/ Idle /\ MessageCreateReply("m1", "u1", <<"$", "3">>)
    \/ Idle /\ ReactionAdd("m2", "u1", SUCCESS_REACTION)
    \/ Idle /\ MessageCreateReply("m2", "u1", <<"$", "0">>)
    \/ ResolveSteps
    \/ CashSteps
    \/ SinkSteps

SpecSink == Init /\ [][NextSink]_vars

\* The bot when the only events are success reactions on, and $3 replies to,
\* the group bet, with the credentials set.  Every call to the spreadsheet
\* settles in the end, so a report call that is under way goes on.
NextRetry ==
    \/ ReactionAdd("m1", "u1", SUCCESS_REACTION)
    \/ MessageCreateReply("m1", "u1", <<"$", "3">>)
    \/ ResolveSteps
    \/ CashSteps
    \/ SinkSteps

SpecRetry == InitWith(TRUE) /\ [][NextRetry]_vars /\ WF_vars(SinkSteps)

\* The bot when the only events are message-created events for the group bet
\* message and vote reactions on it.
NextCreate ==
    \/ MessageCreateBet("m1")
    \/ \E u \in Users, e \in {UPVOTE, DOWNVOTE} : ReactionAdd("m1", u, e)
    \/ CreateSteps
    \/ VoteSteps

SpecCreate == InitWith(TRUE) /\ [][NextCreate]_vars

\* The bot when events of all three handlers arrive for the group bet message,
\* and vote reactions for a message of the output channel, each arriving when
\* the bot is idle.  Every awaited call settles, so every suspended handler is
\* resumed.
NextContain ==
    \/ Idle /\ MessageCreateBet("m1")
    \/ \E e \in {UPVOTE, DOWNVOTE} : Idle /\ ReactionAdd("m1", "u2", e)
    \/ Idle /\ ReactionAdd("m1", "u1", SUCCESS_REACTION)
    \/ Idle /\ MessageCreateReply("m1", "u1", <<"$", "3">>)
    \/ Idle /\ ReactionAdd("m3", "u2", UPVOTE)
    \/ CreateSteps
    \/ VoteSteps
    \/ ResolveSteps
    \/ CashSteps
    \/ SinkSteps
    \/ \E t \in Running, ok \in BOOLEAN : OutputGuardNotice(t, ok)

SpecContain ==
    /\ InitWith(TRUE) /\ [][NextContain]_vars
    /\ WF_vars(CreateSteps) /\ WF_vars(VoteSteps) /\ WF_vars(ResolveSteps)
    /\ WF_vars(CashSteps) /\ WF_vars(SinkSteps)
    /\ WF_vars(\E t \in Running, ok \in BOOLEAN : OutputGuardNotice(t, ok))

\* The bot when the only events are reactions by a user other than the author
\* on the messages that try the content tests, each arriving when the bot is
\* idle.  These messages are older than the cutoff, so no report reaches the
\* spreadsheet.
NextGate ==
    \/ \E m \in GateMsgs, e \in ReactEmojis : Idle /\ ReactionAdd(m, "u2", e)
    \/ VoteSteps
    \/ ResolveSteps

SpecGate == InitWith(TRUE) /\ [][NextGate]_vars

\* The bot when the only events are vote reactions on the group bet message,
\* each arriving when the bot is idle: the votes are handled one at a time.
NextSeqVote ==
    \/ \E u \in Users, e \in {UPVOTE, DOWNVOTE} : Idle /\ ReactionAdd("m1", u, e)
    \/ VoteSteps

SpecSeqVote == InitWith(TRUE) /\ [][NextSeqVote]_vars

\* The bot when the group bet message gets votes from its author and one
\* other user, with or without a message-created event before them.
NextLazy ==
    \/ MessageCreateBet("m1")
    \/ \E u \in {"u1", "u2"}, e \in {UPVOTE, DOWNVOTE} : ReactionAdd("m1", u, e)
    \/ CreateSteps
    \/ VoteSteps

SpecLazy == InitWith(TRUE) /\ [][NextLazy]_vars

\* The bot when a user proposes and votes on the group bet m1 while bots act:
\* reactions by a bot (the bot's own automatic up-vote arrives as such an
\* event), a group bet written by a bot and $-replies by a bot, each event
\* arriving when the bot is idle.
NextBot ==
    \/ Idle /\ MessageCreateBet("m1")
    \/ \E e \in {UPVOTE, DOWNVOTE} : Idle /\ ReactionAdd("m1", "u2", e)
    \/ \E m \in {"m1", "b1"}, e \in ReactEmojis : Idle /\ ReactionAdd(m, "bot", e)
    \/ Idle /\ MessageCreateBet("b1")
    \/ \E c \in {<<"$", "0">>, <<"$", "3">>} : Idle /\ MessageCreateReply("m1", "bot", c)
    \/ CreateSteps
    \/ VoteSteps

SpecBot == InitWith(TRUE) /\ [][NextBot]_vars

\* The bot when users vote on the two messages of the output channel and on
\* the group bet of the input channel, each event arriving when the bot is
\* idle.
NextOutput ==
    \/ \E m \in {"m3", "o1"}, u \in {"u1", "u2"}, e \in {UPVOTE, DOWNVOTE} :
          Idle /\ ReactionAdd(m, u, e)
    \/ \E e \in {UPVOTE, DOWNVOTE} : Idle /\ ReactionAdd("m1", "u2", e)
    \/ \E t \in Running, ok \in BOOLEAN : OutputGuardNotice(t, ok)
    \/ VoteSteps

SpecOutput == InitWith(TRUE) /\ [][NextOutput]_vars

----------------------------------------------------------------------------
(* Properties *)

AllTasks == Running \cup Finished

VoteEmojis == {UPVOTE, DOWNVOTE}
MarkEmojis == {SUCCESS_REACTION, FAIL_REACTION}

RECURSIVE SumCopies(_, _)
\* the number of copies the bag B holds of the elements of S
SumCopies(B, S) ==
    IF S = {} THEN 0
    ELSE LET x == CHOOSE y \in S : TRUE
         IN CopiesIn(x, B) + SumCopies(B, S \ {x})

\* how many messages of one of the kinds were sent about message m
SentCount(kinds, m) ==
    SumCopies(outChannel, {o \in BagToSet(outChannel) : o.msg = m /\ o.kind \in kinds})

\* the ids a name list of an announcement stands for
Ids(list) == {e[1] : e \in list}

\* every entry of a name list shows the user's name or the placeholder
WellShown(list) == \A e \in list : e[2] \in {Username(e[1]), "Unknown"}

\* this step is the arrival of handler invocation t
Arrived(t) ==
    /\ BagCardinality(running') + BagCardinality(finished')
          = BagCardinality(running) + BagCardinality(finished) + 1
    /\ CopiesIn(t, running') + CopiesIn(t, finished')
          > CopiesIn(t, running) + CopiesIn(t, finished)

\* C1: for every message id, whatever success/fail reaction events arrive for
\* it and however their handlers interleave, at most one success/fail forward
\* is ever sent to the output channel.
C1_AtMostOneForward ==
    \A m \in Msgs : SentCount({"succeeded", "failed"}, m) <= 1

\* one forward was sent for a message on which a success and a fail reaction
\* arrived afterwards and were both skipped
C1_Witness ==
    \E m \in Msgs :
        /\ SentCount({"succeeded", "failed"}, m) = 1
        /\ \E t1, t2 \in Finished :
              /\ t1.msg = m /\ t2.msg = m
              /\ t1.outcome = "skipped" /\ t2.outcome = "skipped"
              /\ t1.emoji = SUCCESS_REACTION /\ t2.emoji = FAIL_REACTION

\* C2: no user id is in both the up-voter set and the down-voter set of a
\* proposal, also when vote handlers for the same proposal interleave.
C2_OneVotePerVoter ==
    \A m \in Msgs : groupBets[m].upvoters \cap groupBets[m].downvoters = {}

\* C3: the proposer's id is in neither voter set of their own proposal, and a
\* vote event whose voter is the proposer ends at once, leaving both sets as
\* they were and sending nothing.
C3_ProposerCannotVote ==
    /\ [](\A m \in Msgs :
            /\ groupBets[m].tracked =>
                  groupBets[m].proposerId \notin
                      (groupBets[m].upvoters \cup groupBets[m].downvoters)
            /\ \A t \in AllTasks :
                  (t.kind = "react" /\ t.msg = m /\ t.emoji \in VoteEmojis
                     /\ m \in GroupBetMessages /\ t.user = AuthorOf(m))
                  => (t.pc = "done" /\ t.outcome = "proposer" /\ t.out = {}))
    /\ [][\A t \in BagToSet(finished') \cup BagToSet(running') :
            (Arrived(t) /\ t.kind = "react" /\ t.emoji \in VoteEmojis
               /\ t.msg \in GroupBetMessages /\ t.user = AuthorOf(t.msg))
            => /\ groupBets'[t.msg].upvoters = groupBets[t.msg].upvoters
               /\ groupBets'[t.msg].downvoters = groupBets[t.msg].downvoters
               /\ outChannel' = outChannel
               /\ running' = running]_vars

\* the proposer tried to vote on a proposal that has an up-voter and a down-voter
C3_Witness ==
    /\ groupBets["m1"].upvoters # {}
    /\ groupBets["m1"].downvoters # {}
    /\ \E t \in Finished : t.outcome = "proposer" /\ t.user = groupBets["m1"].proposerId

\* C4: the "Group bet passed" announcement is sent at most once per proposal.
C4_PassedAtMostOnce ==
    \A m \in Msgs : SentCount({"passed"}, m) <= 1

\* C5: the "rejected" announcement is sent at most once per proposal.
C5_RejectedAtMostOnce ==
    \A m \in Msgs : SentCount({"rejected"}, m) <= 1

\* C6: a proposal never gets both a Passed and a Rejected announcement.
C6_PassedRejectedExclusive ==
    \A m \in Msgs : ~(SentCount({"passed"}, m) >= 1 /\ SentCount({"rejected"}, m) >= 1)

C9_LedgerGrowsAndBlocks ==
    [][/\ processed \subseteq processed'
       /\ \A t \in BagToSet(finished') \cup BagToSet(running') :
             (Arrived(t) /\ t.kind = "react" /\ t.emoji \in MarkEmojis
                /\ inInput(t.msg) /\ t.msg \in WithReturns /\ t.msg \in processed)
             => /\ t.pc = "done" /\ t.outcome = "skipped"
                /\ t.out = {} /\ t.reports = {}
                /\ running' = running
                /\ outChannel' = outChannel
                /\ reportCalls' = reportCalls
                /\ sheet' = sheet]_vars

\* both bets are in the ledger and a later reaction on one of them was skipped
C9_Witness ==
    /\ processed = {"m1", "m2"}
    /\ \E t \in Finished : t.outcome = "skipped" /\ t.msg \in processed

\* C10: an exact-amount reply to an original that carries a reaction of the
\* resolved set adds no reaction to the original, sends nothing and makes no
\* report call.
C10_ResolvedOriginalIgnored ==
    \A t \in AllTasks :
        (t.kind = "reply" /\ t.amount # NoAmount /\ t.closed)
        => (t.marks = {} /\ t.out = {} /\ t.reports = {})

\* C11: once a $0 reply has put the void marker on an original, every later
\* exact-amount reply to that original is ignored entirely: it adds no
\* reaction, sends nothing and makes no report call.
C11_VoidedOriginalIgnored ==
    \A t \in AllTasks :
        (t.kind = "reply" /\ t.amount # NoAmount /\ t.voided)
        => (t.marks = {} /\ t.out = {} /\ t.reports = {})

\* C12: a reply to an unresolved original of the input channel has one of three
\* outcomes.  A reply that is not exactly a dollar amount ends at once with no
\* reaction, send or report.  An exact $0 adds no marker but the void marker,
\* sends no message but "Bet Voided" and reports nothing but a VOID row with
\* cashout 0 and gain/loss 0, and when its calls succeed it does all three.
\* Any other exact amount adds no marker but the cash-out marker, sends no
\* message but a cash-out line and reports nothing but a CASH_OUT row with that
\* amount, and when its calls succeed it does all three.
C12_ThreeOutcomes ==
    \A t \in AllTasks :
        (t.kind = "reply" /\ ~t.closed) =>
            /\ t.amount = NoAmount =>
                  /\ t.pc = "done" /\ t.outcome = "ignored"
                  /\ t.marks = {} /\ t.out = {} /\ t.reports = {}
            /\ t.amount = 0 =>
                  /\ t.marks \subseteq {BLACK_CIRCLE}
                  /\ t.out \subseteq {OutMsg("voided", t.msg)}
                  /\ \A row \in t.reports :
                        /\ row.event = "VOID" /\ row.msg = t.msg
                        /\ row.cashout = Num(0) /\ row.gainLoss = Num(0)
                  /\ t.outcome = "ok" => (t.out # {} /\ t.reports # {})
                  /\ t.pc = "c_send" /\ t.marks = {} => faults > 0
            /\ t.amount > 0 =>
                  /\ t.marks \subseteq {YELLOW_FLAG}
                  /\ \A o \in t.out : o.kind = "cashout" /\ o.msg = t.msg
                  /\ \A row \in t.reports :
                        /\ row.event = "CASH_OUT" /\ row.msg = t.msg
                        /\ row.cashout = Num(t.amount \div 10)
                  /\ t.outcome = "ok" => (t.out # {} /\ t.reports # {})
                  /\ t.pc = "c_send" /\ t.marks = {} => faults > 0

\* the three outcomes have happened: a reply ignored, a bet voided with marker,
\* message and report, a bet cashed out with marker, message and report
C12_Witness ==
    \E t1, t2, t3 \in Finished :
        /\ t1.kind = "reply" /\ t1.amount = NoAmount /\ t1.outcome = "ignored"
        /\ t2.kind = "reply" /\ t2.amount = 0 /\ t2.outcome = "ok"
        /\ t2.marks = {BLACK_CIRCLE} /\ t2.out = {OutMsg("voided", t2.msg)}
        /\ \E row \in t2.reports : row.event = "VOID" /\ row.cashout = Num(0)
        /\ t3.kind = "reply" /\ t3.amount = 3000 /\ t3.outcome = "ok"
        /\ t3.marks = {YELLOW_FLAG}
        /\ \E o \in t3.out : o.kind = "cashout"
        /\ \E row \in t3.reports : row.event = "CASH_OUT" /\ row.cashout = Num(300)

\* C13: with amounts in thousandths of a dollar and diff = cashout - stake, a
\* cash-out line sent for a bet with an inferred stake is a gain line showing
\* |diff| when diff >= 0.005, a loss line showing |diff| when diff <= -0.005
\* and the plain line when |diff| < 0.005; for a bet with no inferred stake it
\* is the plain line and the gain/loss reported is empty.
C13_Framing ==
    \A t \in AllTasks :
        (t.kind = "reply" /\ t.amount > 0 /\ t.out # {}) =>
            LET known == t.msg = "m2"
                diff == t.amount - 2000
                shown == IF diff < 0 THEN (5 - diff) \div 10 ELSE (diff + 5) \div 10
            IN
            /\ t.stake = IF known THEN 2000 ELSE NoAmount
            /\ \A o \in t.out :
                  /\ o.line.amount = (t.amount + 5) \div 10
                  /\ (known /\ diff >= 5) =>
                        (o.line.frame = "gain" /\ o.line.abs = shown)
                  /\ (known /\ diff <= -5) =>
                        (o.line.frame = "loss" /\ o.line.abs = shown)
                  /\ (known /\ diff > -5 /\ diff < 5) => o.line.frame = "plain"
                  /\ ~known => o.line.frame = "plain"
            /\ \A row \in t.reports : row.gainLoss.isNull = ~known

\* $3 on a $2 stake was a gain of 1.00, $1.999 was neutral, $1.995 a loss of
\* 0.01, and a bet without stake was cashed out with the plain line
C13_Witness ==
    \E t1, t2, t3 \in Finished :
        /\ t1.msg = "m2" /\ t1.amount = 3000
        /\ \E o \in t1.out : o.line = [frame |-> "gain", abs |-> 100, amount |-> 300]
        /\ t2.msg = "m2" /\ \E o \in t2.out : o.line.frame = "plain"
        /\ t2.amount = 1999
        /\ t3.msg = "s1" /\ \E o \in t3.out : o.line.frame = "plain"
        /\ \E row \in t3.reports : row.gainLoss = Blank

\* the amounts of a text: where each "$<digits>" starts
DollarStarts(text) ==
    {i \in 1..(Len(text) - 1) : text[i] = "$" /\ text[i + 1] \in Digits}

\* the offsets at which the text reads "Returns"
ReturnsAt(text) ==
    {i \in 1..(Len(text) - 6) : SubSeq(text, i, i + 6) = <<"R","e","t","u","r","n","s">>}

\* C14: the stake inferred from a text is none when the text has no $<decimal>;
\* the last amount starting before the first "Returns" when there is one; and
\* otherwise the smallest amount of the text.  For the texts of the input
\* channel: "no bet" -> none, "$5 $2 x" -> 2, "Returns $5 $2.50" -> 2.50,
\* "$1 $4 Returns $3" -> 4, "$4 returns $3" -> 3, "$3 Returns $1 Returns $2" -> 3,
\* "DH a $2 Returns $3" -> 2.
C14_StakeInference ==
    \A t \in AllTasks :
        (t.kind = "reply" /\ t.amount > 0 /\ t.out # {}) =>
            LET text == Content(t.msg)
                starts == DollarStarts(text)
                value(i) == DecimalAt(text, i + 1).value
                before == {i \in starts : \E r \in ReturnsAt(text) :
                             /\ \A r2 \in ReturnsAt(text) : r <= r2
                             /\ i < r}
            IN
            /\ starts = {} => t.stake = NoAmount
            /\ before # {} =>
                  \E i \in before : (\A j \in before : j <= i) /\ t.stake = value(i)
            /\ (starts # {} /\ before = {}) =>
                  /\ \E i \in starts : t.stake = value(i)
                  /\ \A i \in starts : t.stake <= value(i)
            /\ t.stake = CASE t.msg = "s1" -> NoAmount
                           [] t.msg = "s2" -> 2000
                           [] t.msg = "s3" -> 2500
                           [] t.msg = "s4" -> 4000
                           [] t.msg = "s5" -> 3000
                           [] t.msg = "s6" -> 3000
                           [] OTHER -> 2000

\* a bet whose last amount before "Returns" is not its smallest, one with
\* "Returns" before every amount and one without any amount were cashed out
C14_Witness ==
    \E t1, t2, t3 \in Finished :
        /\ t1.msg = "s4" /\ t1.out # {} /\ t1.stake = 4000
        /\ t2.msg = "s3" /\ t2.out # {} /\ t2.stake = 2500
        /\ t3.msg = "s1" /\ t3.out # {} /\ t3.stake = NoAmount

\* the sends a report call of the event follows
KindsOf(event) ==
    CASE event = "SUCCESS" -> {"succeeded"}
      [] event = "FAILURE" -> {"failed"}
      [] event = "VOID" -> {"voided"}
      [] OTHER -> {"cashout"}

\* C15: the report sink is called only after the send of the same flow has
\* completed: every handler run that has made a report call has sent its
\* message before, and there are never more report calls of an event about a
\* message than sends of that flow about it.  A report that is dropped (cutoff,
\* missing credentials, header write failing, every append attempt failing)
\* leaves the message sent and the handler ended normally.
C15_ReportAfterSend ==
    /\ \A t \in AllTasks :
          /\ t.reports # {} =>
                /\ Cardinality(t.reports) = 1 /\ Cardinality(t.out) = 1
                /\ \A o \in t.out : CopiesIn(o, outChannel) >= 1
                /\ \A row \in t.reports : \A o \in t.out :
                      o.kind \in KindsOf(row.event) /\ o.msg = row.msg
          /\ t.pc \in {"s_tabs", "s_append"} => (t.reports # {} /\ t.out # {})
          /\ t.drop # "" =>
                /\ t.pc = "done" /\ t.outcome = "ok"
                /\ t.reports # {} /\ t.out # {}
                /\ t.appended = 0
          /\ (t.pc = "done" /\ t.reports # {}) => t.outcome = "ok"
    /\ \A row \in BagToSet(reportCalls) :
          CopiesIn(row, reportCalls) <= SentCount(KindsOf(row.event), row.msg)

\* three reports were dropped, one by the cutoff, one by the header write
\* failing and one by every append attempt failing, each after its send
C15_Witness ==
    \E t1, t2, t3 \in Finished :
        /\ t1.drop = "cutoff" /\ t1.out # {} /\ t1.outcome = "ok"
        /\ t2.drop = "header" /\ t2.out # {} /\ t2.outcome = "ok"
        /\ t3.drop = "gaveup" /\ t3.out # {} /\ t3.outcome = "ok"

\* C16: whatever appends succeed or fail, the retry loop makes at most
\* maxAttempts = 5 attempts, ends at the first append that gets through (at most
\* one row per report call), gives up only after the fifth failure, never
\* makes its handler end by an exception, and always comes to an end.
C16_RetryBounded ==
    /\ [](/\ \A t \in AllTasks :
               /\ t.attempt <= 5
               /\ t.appended <= 1
               /\ t.appended = 1 => (t.pc = "done" /\ t.drop = "")
               /\ t.pc = "s_append" => (t.attempt >= 1 /\ t.appended = 0)
               /\ (t.pc = "done" /\ t.attempt >= 1) =>
                     /\ t.outcome = "ok"
                     /\ t.appended = 0 => (t.attempt = 5 /\ t.drop = "gaveup")
          /\ \A row \in BagToSet(sheet) : CopiesIn(row, sheet) <= CopiesIn(row, reportCalls))
    /\ <>[](\A t \in Running : t.pc # "s_append")

\* one report got its row at the third attempt and another gave up after five
C16_Witness ==
    \E t1, t2 \in Finished :
        /\ t1.attempt = 3 /\ t1.appended = 1 /\ CopiesIn(RowOf(t1), sheet) >= 1
        /\ t2.attempt = 5 /\ t2.appended = 0 /\ t2.drop = "gaveup"

\* C17: the gate looks at the time the original message was written: every
\* row of the sheet is about an original written at or after the cutoff, and a
\* report about an original older than the cutoff is dropped before any call to
\* the spreadsheet, although the event itself happens after the cutoff.
C17_CutoffOnOriginal ==
    /\ SentAt >= LOGGING_START
    /\ \A row \in BagToSet(sheet) :
          /\ row.msg = "m1"
          /\ CreatedAt(row.msg) >= LOGGING_START
          /\ row.when = CreatedAt(row.msg)
    /\ \A t \in AllTasks :
          (t.reports # {} /\ CreatedAt(t.msg) < LOGGING_START) =>
             /\ t.pc = "done" /\ t.drop = "cutoff"
             /\ t.attempt = 0 /\ t.appended = 0

\* a void of the old bet was dropped by the cutoff while a cash-out and a
\* failure of the bet written at the cutoff got their rows
C17_Witness ==
    /\ \E t \in Finished : t.msg = "m2" /\ t.amount = 0 /\ t.drop = "cutoff"
    /\ \E r1, r2 \in BagToSet(sheet) :
          r1.msg = "m1" /\ r1.event = "CASH_OUT" /\ r2.msg = "m1" /\ r2.event = "FAILURE"

\* C18: a vote that brought its count to the threshold (first up-vote, second
\* down-vote) ends with its announcement sent unless the send itself rejects:
\* a handler waiting for the proposer's user object always goes on to build the
\* name lists, whatever that lookup gives, and a handler that ended normally
\* has sent the announcement with every name shown or replaced by the
\* placeholder.
C18_AnnouncementBestEffort ==
    /\ [](\A t \in Finished :
            (/\ t.kind = "react" /\ t.outcome = "ok"
             /\ (t.emoji = UPVOTE /\ t.count >= 1) \/ (t.emoji = DOWNVOTE /\ t.count >= 2)) =>
                \E o \in t.out :
                   /\ o.kind = (IF t.emoji = UPVOTE THEN "passed" ELSE "rejected")
                   /\ CopiesIn(o, outChannel) >= 1
                   /\ o.proposer \in {Username(groupBets[t.msg].proposerId), "Unknown"}
                   /\ WellShown(o.for) /\ WellShown(o.against))
    /\ [][\A t \in Running :
             (t.pc = "v_proposer" /\ CopiesIn(t, running') < CopiesIn(t, running)) =>
                \E t2 \in BagToSet(running') :
                   /\ t2.pc = "v_names" /\ t2.msg = t.msg /\ t2.user = t.user
                   /\ CopiesIn(t2, running') > CopiesIn(t2, running)]_vars

\* C20: once the state of a message id is tracked it stays tracked with the
\* same proposer, no voter ever leaves its up-voters or down-voters, and a
\* message-created event makes no state for an id that has one; the output
\* channel holds at most one proposal notice per message id.
C20_ProposalInitIdempotent ==
    /\ [][\A m \in Msgs :
             groupBets[m].tracked =>
                /\ groupBets'[m].tracked
                /\ groupBets'[m].proposerId = groupBets[m].proposerId
                /\ groupBets[m].upvoters \subseteq groupBets'[m].upvoters
                /\ groupBets[m].downvoters \subseteq groupBets'[m].downvoters
                /\ groupBets[m].proposalForwarded => groupBets'[m].proposalForwarded]_vars
    /\ [](\A m \in Msgs : SentCount({"proposal"}, m) <= 1)

\* the ways a handler returns: its early returns, its normal end, and its own
\* catch block
ContainedOutcomes ==
    {"bot", "ignored", "proposer", "duplicate", "skipped", "resolved",
     "nooriginal", "nochan", "ok", "threw"}

\* C19: whichever awaited call fails, every handler that has ended has
\* returned (by an early return, normally, or through its own catch block,
\* never with the exception unhandled), a handler that ended in its catch has
\* sent nothing after the failure, and every handler that was started comes to
\* an end, so none stays suspended in front of later events.
C19_FailuresContained ==
    /\ [](\A t \in Finished :
            /\ t.outcome \in ContainedOutcomes
            /\ t.outcome = "threw" => (t.reports = {} /\ t.drop = ""))
    /\ [](\A t \in Running : t.outcome = "")
    /\ <>[](running = EmptyBag)

\* a cash-out reply to the group bet ended in the handler's catch (its send
\* rejected) while the bet carried no resolved mark, and the success reaction
\* that came after it was handled to the end: forwarded and reported
C19_Witness ==
    \E t1, t2 \in Finished :
        /\ t1.kind = "reply" /\ t1.msg = "m1" /\ ~t1.closed /\ t1.outcome = "threw"
        /\ t2.kind = "react" /\ t2.msg = "m1" /\ t2.emoji = SUCCESS_REACTION
        /\ t2.outcome = "ok" /\ t2.out # {} /\ t2.reports # {}

\* the messages of the input channel whose text has no " Returns "
NoReturnsMsgs == {"s1", "s2", "s3", "s5", "q1", "q2"}

\* tasks that entered `finished` in this step
Ended(t) == CopiesIn(t, finished') > CopiesIn(t, finished)

\* C21: a message of the input channel whose text has no " Returns " (lower
\* case "returns", "Returns" with no space after it, ...) never gets a vote
\* state, never enters the resolved ledger, and nothing is ever sent or
\* reported about it; the handler of a reaction on it ends at once and that
\* step changes no vote state, leaves the ledger, the output channel and the
\* report calls as they were.
C21_ReturnsGate ==
    /\ [](\A m \in NoReturnsMsgs :
            /\ inInput(m)
            /\ groupBets[m] = NoState
            /\ m \notin processed
            /\ \A o \in BagToSet(outChannel) : o.msg # m
            /\ \A row \in BagToSet(reportCalls) : row.msg # m
            /\ \A t \in AllTasks :
                  (t.kind = "react" /\ t.msg = m) =>
                     /\ t.pc = "done" /\ t.outcome = "ignored"
                     /\ t.out = {} /\ t.marks = {} /\ t.reports = {})
    /\ [][\A t \in BagToSet(finished') :
             (Ended(t) /\ t.kind = "react" /\ t.msg \in NoReturnsMsgs) =>
                /\ groupBets' = groupBets /\ processed' = processed
                /\ outChannel' = outChannel /\ reportCalls' = reportCalls
                /\ running' = running]_vars

\* votes and a success reaction on the two messages without " Returns " were
\* ignored, while a vote on a group bet written with "Gb." was recorded
C21_Witness ==
    /\ \E t1, t2 \in Finished :
          /\ t1.msg = "q1" /\ t1.emoji = UPVOTE /\ t1.outcome = "ignored"
          /\ t2.msg = "q2" /\ t2.emoji = SUCCESS_REACTION /\ t2.outcome = "ignored"
    /\ groupBets["q4"].tracked /\ "u2" \in groupBets["q4"].upvoters

\* the messages whose text has " Returns " and "gb" as a word of its own, and
\* those whose text has " Returns " but "gb" only inside longer words or not
\* at all
GroupTexts == {"m1", "q4", "q5"}
NonGroupTexts == {"m2", "s4", "s6", "q3"}

\* C22: among the texts with " Returns ", the group test answers true exactly
\* for those with "gb" as a whole word in any letter case ("GB a", "Gb.", a
\* final "gb") and false for "ngb", "gbp", "gb_1"; an up or down vote on a
\* message that is not a group bet never gives it a vote state and sends
\* nothing, while a vote by another user than the author on a group bet makes
\* its state.
C22_GroupQualification ==
    /\ \A m \in GroupTexts \cup NonGroupTexts : hasExactReturns(Content(m))
    /\ \A m \in GroupTexts : hasGB(Content(m)) /\ isGroupBetMessage(m)
    /\ \A m \in NonGroupTexts : ~hasGB(Content(m)) /\ ~isGroupBetMessage(m)
    /\ \A m \in NonGroupTexts :
          /\ groupBets[m] = NoState
          /\ \A o \in BagToSet(outChannel) : o.msg = m => o.kind \in {"succeeded", "failed"}
          /\ \A t \in AllTasks :
                (t.kind = "react" /\ t.msg = m /\ t.emoji \in VoteEmojis) =>
                   (t.pc = "done" /\ t.outcome = "ignored" /\ t.out = {})
    /\ \A t \in AllTasks :
          (t.kind = "react" /\ t.msg \in GroupTexts /\ t.emoji \in VoteEmojis) =>
             (groupBets[t.msg].tracked /\ t.outcome # "ignored")

\* votes on the message with "ngb gbp gb_1" were ignored and it has no state,
\* while the bets written "Gb." and "... gb" each got a recorded vote
C22_Witness ==
    /\ \E t1, t2 \in Finished :
          /\ t1.msg = "q3" /\ t1.emoji = UPVOTE /\ t1.outcome = "ignored"
          /\ t2.msg = "q3" /\ t2.emoji = DOWNVOTE /\ t2.outcome = "ignored"
    /\ "u2" \in groupBets["q4"].upvoters \cup groupBets["q5"].downvoters

\* C23: when votes are handled one at a time, a vote event whose voter is
\* already in the up-voters or the down-voters of the proposal ends at once as
\* a duplicate, whichever way the new vote goes: both sets and the output
\* channel are as they were, and the handler has sent nothing.
C23_DuplicateVoteNoOp ==
    /\ [](\A t \in AllTasks : t.outcome = "duplicate" => (t.pc = "done" /\ t.out = {}))
    /\ [][\A t \in BagToSet(finished') \cup BagToSet(running') :
             (/\ Arrived(t) /\ t.kind = "react" /\ t.emoji \in VoteEmojis
              /\ t.msg \in GroupBetMessages
              /\ t.user \in groupBets[t.msg].upvoters \cup groupBets[t.msg].downvoters)
             => /\ t.pc = "done" /\ t.outcome = "duplicate"
                /\ groupBets' = groupBets
                /\ outChannel' = outChannel
                /\ running' = running]_vars

\* a user whose down-vote is recorded voted up and voted down again, and both
\* events ended as duplicates
C23_Witness ==
    /\ "u2" \in groupBets["m1"].downvoters
    /\ \E t1, t2 \in Finished :
          /\ t1.user = "u2" /\ t1.emoji = UPVOTE /\ t1.outcome = "duplicate"
          /\ t2.user = "u2" /\ t2.emoji = DOWNVOTE /\ t2.outcome = "duplicate"

\* the state a proposal of message m starts with
FreshState(m) ==
    [tracked |-> TRUE, proposerId |-> AuthorOf(m), upvoters |-> {}, downvoters |-> {},
     proposalForwarded |-> FALSE]

\* C24: a vote event on a group bet message that has no state makes the very
\* state a message-created event makes (the author as proposer, both voter
\* sets empty) and goes on as on any proposal: the author's vote ends at once
\* as the proposer's, another user's vote goes on to the channel lookup.
\* Every state, however it was made, has the author as proposer, never has
\* the proposer among its voters, and a voter already in one of its sets is
\* turned away as a duplicate.
C24_LazyCreation ==
    /\ [](\A m \in Msgs :
            /\ ~groupBets[m].tracked => groupBets[m] = NoState
            /\ groupBets[m].tracked =>
                  /\ groupBets[m].proposerId = AuthorOf(m)
                  /\ AuthorOf(m) \notin groupBets[m].upvoters \cup groupBets[m].downvoters)
    /\ [][\A t \in BagToSet(finished') \cup BagToSet(running') :
             (Arrived(t) /\ t.msg \in GroupBetMessages /\ ~groupBets[t.msg].tracked
                /\ (t.kind = "create" \/ (t.kind = "react" /\ t.emoji \in VoteEmojis)))
             => /\ groupBets' = [groupBets EXCEPT ![t.msg] = FreshState(t.msg)]
                /\ outChannel' = outChannel
                /\ t.kind = "react" =>
                      IF t.user = AuthorOf(t.msg)
                      THEN t.pc = "done" /\ t.outcome = "proposer"
                      ELSE t.pc = "v_chan"]_vars
    /\ [][\A t \in BagToSet(finished') \cup BagToSet(running') :
             (Arrived(t) /\ t.kind = "react" /\ t.emoji \in VoteEmojis
                /\ t.msg \in GroupBetMessages /\ groupBets[t.msg].tracked)
             => /\ groupBets' = groupBets
                /\ t.user = AuthorOf(t.msg) => t.outcome = "proposer"
                /\ (t.user \in groupBets[t.msg].upvoters \cup groupBets[t.msg].downvoters)
                      => t.outcome = "duplicate"]_vars

\* no message-created event was ever handled for the group bet, yet it has a
\* state with a recorded vote, the author's vote ended as the proposer's and
\* a second vote of the voter as a duplicate
C24_Witness ==
    /\ \A t \in AllTasks : t.kind # "create"
    /\ groupBets["m1"].tracked /\ ~groupBets["m1"].proposalForwarded
    /\ "u2" \in groupBets["m1"].upvoters
    /\ \E t1, t2 \in Finished :
          /\ t1.user = "u1" /\ t1.outcome = "proposer"
          /\ t2.user = "u2" /\ t2.outcome = "duplicate"

\* the waits of the retry loop in tenths of a millisecond: 400, 640, 1024 and
\* 1638.4 ms
RetryWaits == <<4000, 6400, 10240, 16384>>

\* C25: the waits a report call has made are the first ones of 400, 640,
\* 1024, 1638.4 ms, one for each failed attempt that was followed by another
\* attempt: none before the first attempt, none after an attempt that got
\* through, and none after the fifth failed attempt, so a call that gave up
\* has waited exactly four times.
C25_RetryDelays ==
    \A t \in AllTasks :
        /\ Len(t.waited) = (IF t.attempt = 0 THEN 0 ELSE t.attempt - 1)
        /\ Len(t.waited) <= 4
        /\ t.waited = SubSeq(RetryWaits, 1, Len(t.waited))
        /\ t.drop = "gaveup" => t.waited = RetryWaits

\* one report call got its row at the first attempt without waiting, another
\* gave up after the four waits
C25_Witness ==
    \E t1, t2 \in Finished :
        /\ t1.attempt = 1 /\ t1.appended = 1 /\ t1.waited = <<>>
        /\ t2.drop = "gaveup" /\ t2.attempt = 5 /\ t2.waited = <<4000, 6400, 10240, 16384>>

\* C26: once no handler of a success/fail reaction on it is still running, a
\* message id that is in the resolved ledger has had its success/fail forward
\* sent to the output channel, exactly once.
C26_LedgeredIsForwarded ==
    \A m \in processed :
        (\A t \in Running : ~(t.msg = m /\ t.pc = "r_chan")) =>
            SentCount({"succeeded", "failed"}, m) = 1

\* the handlers of user u's vote events on message m
VotesOf(u, m) ==
    {t \in AllTasks : t.kind = "react" /\ t.msg = m /\ t.user = u /\ t.emoji \in VoteEmojis}

\* C27: a vote handler that found no output channel has sent nothing, and the
\* step in which it ends leaves every vote state and the output channel as
\* they were; a user all of whose vote events ended that way is in neither
\* voter set, and the next vote of such a user is taken up, not turned away
\* as a duplicate.
C27_NoChannelNoVote ==
    /\ [](\A t \in Finished :
            (t.kind = "react" /\ t.emoji \in VoteEmojis /\ t.outcome = "nochan") =>
               (t.out = {} /\ t.count = 0))
    /\ [](\A u \in Users :
            (\A t \in VotesOf(u, "m1") : t.outcome = "nochan") =>
               u \notin groupBets["m1"].upvoters \cup groupBets["m1"].downvoters)
    /\ [][\A t \in BagToSet(finished') :
             (Ended(t) /\ t.kind = "react" /\ t.emoji \in VoteEmojis /\ t.outcome = "nochan")
             => (groupBets' = groupBets /\ outChannel' = outChannel)]_vars
    /\ [][\A t \in BagToSet(finished') \cup BagToSet(running') :
             (/\ Arrived(t) /\ t.kind = "react" /\ t.emoji \in VoteEmojis /\ t.msg = "m1"
              /\ t.user # AuthorOf("m1")
              /\ VotesOf(t.user, "m1") # {}
              /\ \A t2 \in VotesOf(t.user, "m1") : t2.outcome = "nochan")
             => t.pc = "v_chan"]_vars

\* a vote of u2 found no output channel, and the same vote made again by u2
\* was recorded and announced
C27_Witness ==
    \E t1, t2 \in Finished :
        /\ t1.user = "u2" /\ t1.emoji = UPVOTE /\ t1.outcome = "nochan"
        /\ t2.user = "u2" /\ t2.emoji = UPVOTE /\ t2.outcome = "ok" /\ t2.out # {}
        /\ groupBets["m1"].upvoters = {"u2"}

\* C28: a handler called for an event whose acting user is the bot (a
\* reaction, a message, a $-reply) ends at once having sent, marked and
\* reported nothing, and the step in which it arrives leaves every vote state,
\* the ledger, the output channel and the report calls as they were.  The bot
\* is never among the voters, and a proposal on which only the bot has
\* reacted has no up-voter and no Passed announcement.
C28_BotEventsIgnored ==
    /\ [](\A t \in AllTasks :
            t.user = "bot" =>
               /\ t.pc = "done" /\ t.outcome \in {"bot", "ignored"}
               /\ t.out = {} /\ t.marks = {} /\ t.reports = {})
    /\ [](\A m \in Msgs :
            /\ "bot" \notin groupBets[m].upvoters \cup groupBets[m].downvoters
            /\ (\A t \in AllTasks :
                   (t.kind = "react" /\ t.msg = m /\ t.emoji \in VoteEmojis) => t.user = "bot")
               => (groupBets[m].upvoters = {} /\ SentCount({"passed", "rejected"}, m) = 0))
    /\ [](groupBets["b1"] = NoState /\ processed = {})
    /\ [][\A t \in BagToSet(finished') \cup BagToSet(running') :
             (Arrived(t) /\ t.user = "bot")
             => /\ groupBets' = groupBets /\ processed' = processed
                /\ outChannel' = outChannel /\ reportCalls' = reportCalls
                /\ running' = running]_vars

\* the proposal m1 was forwarded and marked with the automatic up-vote, the
\* bot's up-vote reaction and a success reaction by the bot arrived as events
\* and ended at once, and the proposal still has no up-voter
C28_Witness ==
    /\ groupBets["m1"].proposalForwarded /\ UPVOTE \in reactions["m1"]
    /\ groupBets["m1"].upvoters = {}
    /\ \E t1, t2 \in Finished :
          /\ t1.user = "bot" /\ t1.msg = "m1" /\ t1.emoji = UPVOTE /\ t1.outcome = "bot"
          /\ t2.user = "bot" /\ t2.msg = "m1" /\ t2.emoji = SUCCESS_REACTION

\* the handlers of vote reactions on messages of the output channel
GuardTasks(S) ==
    {t \in S : t.kind = "react" /\ t.emoji \in VoteEmojis /\ t.msg \in {"m3", "o1"}}

\* C29: an up or down vote on a message of the output channel, also one whose
\* text is that of a group bet, sends at most the "vote in the tracking
\* channel" notice and does send it when the channel is found and the send
\* goes through; the message never gets a vote state, the ledger stays
\* empty, and neither the arrival of such an event nor the end of its handler
\* changes any vote state or the ledger.
C29_OutputChannelVote ==
    /\ [](\A t \in GuardTasks(AllTasks) :
            /\ t.out \subseteq {OutMsg("vote_here", t.msg)}
            /\ t.marks = {} /\ t.reports = {} /\ t.count = 0
            /\ t.pc \in {"o_chan", "done"}
            /\ t.pc = "done" => t.outcome \in {"ok", "threw"}
            /\ t.outcome = "ok" => t.out = {OutMsg("vote_here", t.msg)}
            /\ t.outcome = "threw" => t.out = {})
    /\ [](groupBets["m3"] = NoState /\ groupBets["o1"] = NoState /\ processed = {})
    /\ [][(\E t \in GuardTasks(BagToSet(finished') \cup BagToSet(running')) :
              Arrived(t) \/ Ended(t))
          => (groupBets' = groupBets /\ processed' = processed
              /\ reportCalls' = reportCalls)]_vars

\* up-votes by the author of m1 and by another user on the notice that quotes
\* m1 each got the "vote in the tracking channel" notice, while in the input
\* channel m1 itself has a recorded vote
C29_Witness ==
    /\ \E t1, t2 \in Finished :
          /\ t1.msg = "o1" /\ t1.user = "u1" /\ t1.out = {OutMsg("vote_here", "o1")}
          /\ t2.msg = "o1" /\ t2.user = "u2" /\ t2.out = {OutMsg("vote_here", "o1")}
    /\ CopiesIn(OutMsg("vote_here", "o1"), outChannel) = 2
    /\ groupBets["m1"].upvoters \cup groupBets["m1"].downvoters = {"u2"}

====
